---- MODULE Spec2Model ----
(***************************************************************************)
(* Rollout operator for one OnDelete StatefulSet (rollout_operator.py).    *)
(*                                                                         *)
(* The model holds the cluster objects the operator reads and writes (the  *)
(* StatefulSet, its pods, its rollout annotations), the clock, and the     *)
(* position of the two handlers: the update handler on_sts_change with the *)
(* executor _execute_rollout it awaits, and the timer check_rollout_timer. *)
(*                                                                         *)
(* Granularity: one action per handler run up to its next suspension       *)
(* point.  The executor's loop body (revision re-read, pod list, deletes)  *)
(* is synchronous code and is one step; every poll of wait_pods_ready is   *)
(* one step; the timer reads the StatefulSet and patches it in two API     *)
(* calls, which are two steps.  The patch object of on_sts_change is       *)
(* applied by the runtime when the handler returns, so a handler's write   *)
(* takes effect in the step in which the handler returns.                  *)
(***************************************************************************)
EXTENDS Integers, Sequences, FiniteSets, TLC

\* ---------------------------------------------------------------- bounds
MaxReplicas == 2      \* spec.replicas is drawn from 0..MaxReplicas
MaxOrdinals == 3      \* pod ordinals are 0..MaxOrdinals-1 (StableSpec: replicas)
MaxLen == 3           \* helper calls: lists of up to MaxLen ordinals
MaxText == 2          \* helper calls: label values and name suffixes up to MaxText
MaxRev == 2           \* revisions (pod template versions) are 1..MaxRev
MaxUnavail == 2       \* RO_MAX_UNAVAILABLE is drawn from 1..MaxUnavail
DelaySeconds == 2     \* RO_DELAY_SECONDS of the run
\* the clock is followed for one delay and one second more
MaxTime == DelaySeconds + 1

\* ------------------------------------------------- absent values (None)
NoRev == 0
NoStr == <<>>

Revs == 1..MaxRev

\* one more revision, of a template edit made once (TrackedSpec)
FreshRev == MaxRev + 1

AllRevs == Revs \cup {FreshRev}
Ords == 0..(MaxOrdinals - 1)

ROLL_STATE_NONE == "none"
ROLL_STATE_PLANNED == "planned"
ROLL_STATE_ROLLING == "rolling"
ROLL_STATE_DONE == "done"
StateAbsent == "absent"

VARIABLES
    settings,   \* RolloutSettings of the run
    sts,        \* the managed StatefulSet: spec and status.updateRevision
    pods,       \* pods[o]: the pod named <sts>-o
    ann,        \* the three rollout annotations on the StatefulSet
    now,        \* int(time.time())
    exec,       \* the running on_sts_change / _execute_rollout invocation
    timer,      \* the running check_rollout_timer invocation
    others,     \* the rollout annotations of the other StatefulSets
    ev,         \* what the last step did (history)
    hist,       \* the deletions of the rollout in progress (history)
    call,       \* the last call of a helper function (HelperSpec)
    seen,       \* when each revision first was the update revision (history)
    neighbours, \* neighbours[o]: the pod <sts>-x-o of a StatefulSet <sts>-x
    labels      \* labels[o]: the value of the pod-index label of pod <sts>-o

vars ==
    <<settings, sts, pods, ann, now, exec, timer, others, ev, hist, call, seen,
      neighbours, labels>>

\* ------------------------------------------------------ pure helpers
Min(a, b) == IF a < b THEN a ELSE b

\* str(n) for n >= 0, as a sequence of decimal digits
RECURSIVE IntToStr(_)
IntToStr(n) == IF n < 10 THEN <<n>> ELSE IntToStr(n \div 10) \o <<n % 10>>

\* int(s) for a string of decimal digits
RECURSIVE StrToInt(_)
StrToInt(s) ==
    IF Len(s) = 1 THEN s[1]
    ELSE 10 * StrToInt(SubSeq(s, 1, Len(s) - 1)) + s[Len(s)]

\* texts are sequences of characters; the decimal digits in order
DigitChars == <<"0", "1", "2", "3", "4", "5", "6", "7", "8", "9">>

IsDigitChar(c) == \E d \in DOMAIN DigitChars : DigitChars[d] = c

DigitValue(c) == (CHOOSE d \in DOMAIN DigitChars : DigitChars[d] = c) - 1

\* str(n) for n >= 0, as a text
str(n) == LET ds == IntToStr(n) IN [i \in DOMAIN ds |-> DigitChars[ds[i] + 1]]

\* the pod-index labels as the StatefulSet controller sets them
ControllerLabels == [o \in Ords |-> str(o)]

\* list(range(n))
Range(n) == [i \in 1..n |-> i - 1]

RECURSIVE Insert(_, _)
Insert(x, s) ==
    IF s = <<>> THEN <<x>>
    ELSE IF x <= Head(s) THEN <<x>> \o s
    ELSE <<Head(s)>> \o Insert(x, Tail(s))

\* sorted(ordinals)
RECURSIVE sorted(_)
sorted(s) == IF s = <<>> THEN <<>> ELSE Insert(Head(s), sorted(Tail(s)))

SeqToSet(s) == {s[i] : i \in DOMAIN s}

\* a mutant of split_halves: the middle rounded up
split_halves_ceil(ordinals, replicas) ==
    LET mid == (replicas + 1) \div 2
    IN  <<SelectSeq(ordinals, LAMBDA o : o < mid),
          SelectSeq(ordinals, LAMBDA o : o >= mid)>>

\* split_halves: (lower, upper) by replicas // 2
split_halves(ordinals, replicas) ==
    LET mid == replicas \div 2
    IN  <<SelectSeq(ordinals, LAMBDA o : o < mid),
          SelectSeq(ordinals, LAMBDA o : o >= mid)>>

RECURSIVE Chunks(_, _)
Chunks(s, n) ==
    IF s = <<>> THEN <<>>
    ELSE LET k == Min(n, Len(s))
         IN  <<SubSeq(s, 1, k)>> \o Chunks(SubSeq(s, k + 1, Len(s)), n)

\* a mutant of batch_ordinals: the input chunked as it comes, unsorted
batch_ordinals_unsorted(ordinals, batch_size) == Chunks(ordinals, batch_size)

\* a mutant of batch_ordinals: chunks one longer than batch_size
batch_ordinals_wide(ordinals, batch_size) == Chunks(sorted(ordinals), batch_size + 1)

\* batch_ordinals: sorted, in chunks of batch_size
batch_ordinals(ordinals, batch_size) == Chunks(sorted(ordinals), batch_size)

RECURSIVE Flatten(_)
Flatten(ss) == IF ss = <<>> THEN <<>> ELSE Head(ss) \o Flatten(Tail(ss))

\* a mutant of Ranges: the lower half first
Ranges_lower_first(replicas) ==
    IF settings.enable_half_split /\ replicas > 1
    THEN LET h == split_halves(Range(replicas), replicas) IN <<h[1], h[2]>>
    ELSE <<Range(replicas)>>

\* the ranges of _execute_rollout: upper half first when halves are on
Ranges(replicas) ==
    IF settings.enable_half_split /\ replicas > 1
    THEN LET h == split_halves(Range(replicas), replicas) IN <<h[2], h[1]>>
    ELSE <<Range(replicas)>>

\* the batches _execute_rollout iterates over, in order (empty ranges skipped)
Plan(replicas) ==
    LET rs == Ranges(replicas)
    IN  Flatten([i \in DOMAIN rs |-> batch_ordinals(rs[i], settings.max_unavailable)])

\* ------------------------------------------------------ cluster reads
\* mutants of pod_needs_update: every pod needs update; the comparison
\* inverted
pod_needs_update_always(pod, target_revision) == TRUE

pod_needs_update_inverted(pod, target_revision) == pod.rev = target_revision

\* pod_needs_update: the pod's controller-revision-hash is not the target
pod_needs_update(pod, target_revision) == pod.rev # target_revision

\* a mutant of current_pods: terminating pods are not listed
current_pods_running == {o \in Ords : pods[o].phase = "running"}

\* current_pods: the pods the selector matches (terminating ones included)
current_pods == {o \in Ords : pods[o].phase # "absent"}

\* status.replicas and status.updatedReplicas as the StatefulSet controller
\* reports them
StatusReplicas == Cardinality(current_pods)
StatusUpdatedReplicas ==
    Cardinality({o \in current_pods :
        pods[o].phase = "running" /\ pods[o].rev = sts.updateRevision})

\* needs_rollout: updated < replicas
needs_rollout == StatusUpdatedReplicas < StatusReplicas

\* a pod counts for wait_pods_ready: not terminating, condition Ready=True
PodReady(o) == pods[o].phase = "running" /\ pods[o].ready

\* no StatefulSet <sts>-x next to the managed one
NoNeighbours == [o \in Ords |-> "absent"]

\* wait_pods_ready lists every pod of the namespace and keeps those whose
\* name starts with "<sts>-", whose ordinal is in the batch and that are
\* not being deleted: the pod <sts>-o of the managed StatefulSet ("own")
\* and the pod <sts>-x-o of a StatefulSet <sts>-x, whose pod-index label is
\* o ("neighbour"); found_pods[o] is the one listed last
Candidates(o) ==
    {c \in {"own"} : pods[o].phase = "running"}
        \cup {c \in {"neighbour"} : neighbours[o] # "absent"}

CandidateReady(o, c) ==
    IF c = "own" THEN pods[o].ready ELSE neighbours[o] = "ready"

\* the polls wait_pods_ready can make of the batch, one per order of the
\* list: found_pods has every ordinal and all found pods are Ready
FoundPods(batch) == {f \in [batch -> {"own", "neighbour"}] :
                        \A o \in batch : f[o] \in Candidates(o)}

PollReady(batch, f) == \A o \in batch : CandidateReady(o, f[o])

\* some poll succeeds; some poll does not
CanPollReady(batch) == \E f \in FoundPods(batch) : PollReady(batch, f)

CanPollNotReady(batch) ==
    ~(\A o \in batch :
         Candidates(o) # {} /\ \A c \in Candidates(o) : CandidateReady(o, c))

\* ------------------------------------------------------ annotations
\* a mutant of set_annotations_patch: the state key is always written, with
\* the text of None when no state is given
set_annotations_patch_state_always(state, last_revision, planned_at) ==
    [k \in ({"state"}
            \cup (IF last_revision # NoRev THEN {"last_revision"} ELSE {})
            \cup (IF planned_at # NoStr THEN {"planned_at"} ELSE {})) |->
        CASE k = "state" -> state
          [] k = "last_revision" -> last_revision
          [] k = "planned_at" -> planned_at]

\* set_annotations_patch: only the fields given (None leaves the key out)
set_annotations_patch(state, last_revision, planned_at) ==
    [k \in ((IF state # StateAbsent THEN {"state"} ELSE {})
            \cup (IF last_revision # NoRev THEN {"last_revision"} ELSE {})
            \cup (IF planned_at # NoStr THEN {"planned_at"} ELSE {})) |->
        CASE k = "state" -> state
          [] k = "last_revision" -> last_revision
          [] k = "planned_at" -> planned_at]

\* a mutant of MergePatch: the annotations are replaced, keys left out are
\* dropped
MergePatch_replace(a, patch) ==
    [k \in DOMAIN a |->
        IF k \in DOMAIN patch THEN patch[k]
        ELSE CASE k = "state" -> StateAbsent
               [] k = "last_revision" -> NoRev
               [] k = "planned_at" -> NoStr]

\* JSON merge patch of the annotations: keys left out keep their value
MergePatch(a, patch) ==
    [k \in DOMAIN a |-> IF k \in DOMAIN patch THEN patch[k] ELSE a[k]]

NoPatch == set_annotations_patch(StateAbsent, NoRev, NoStr)

\* ann.get(ROLL_ANNOTATION_STATE, ROLL_STATE_NONE)
ReadState == IF ann.state = StateAbsent THEN ROLL_STATE_NONE ELSE ann.state

IdleExec == [pc |-> "idle", R0 |-> NoRev, replicas |-> 0, idx |-> 0]

\* history: the handler step taken, the annotation patch it applied, the
\* ordinals it issued deletes for, the batch index and target it worked on
Ev(op, patch, del, idx, target) ==
    [op |-> op, patch |-> patch, del |-> del, idx |-> idx, R0 |-> target]

EnvEv == Ev("env", NoPatch, {}, 0, NoRev)

\* history of the update revisions, recorded when seen.track: the time
\* each revision first was status.updateRevision (-1: not yet), and whether
\* the update revision changed while the state was rolling since the last
\* detection
\* and, recorded when seen.order: the revisions in the order they first
\* were the update revision (firsts), and in the order they last became it
\* (recent, the current one last)
NoSeen(track) ==
    [track |-> track, first |-> [r \in AllRevs |-> -1], mid |-> FALSE,
     order |-> FALSE, firsts |-> <<>>, recent |-> <<>>]

SeenRevision(r) ==
    IF seen.track
    THEN [seen EXCEPT !.first[r] = IF @ = -1 THEN now ELSE @,
                      !.mid = @ \/ ann.state = ROLL_STATE_ROLLING]
    ELSE IF seen.order
    THEN [seen EXCEPT
             !.firsts = IF \E i \in DOMAIN @ : @[i] = r THEN @ ELSE Append(@, r),
             !.recent = Append(SelectSeq(@, LAMBDA x : x # r), r)]
    ELSE seen

SeenDetection == IF seen.track THEN [seen EXCEPT !.mid = FALSE] ELSE seen

\* no helper call recorded
NoCall == [fn |-> "none", args |-> <<>>, result |-> <<>>]

\* the executor steps that issue pod deletes
DeleteOps == {"delete_batch", "delete_not_found"}

\* history of the rollout in progress, recorded when hist.on: its target,
\* the listed pods that needed update when its first executor invocation
\* started, the ordinals the current invocation has issued deletes for, and
\* how the invocation before the current one ended
NoHist(on) ==
    [on |-> on, R0 |-> NoRev, planned |-> {}, run |-> {}, after |-> "none",
     down |-> {}]

HistStart(target) ==
    IF ~hist.on THEN hist
    ELSE IF hist.R0 = target THEN [hist EXCEPT !.run = {}]
    ELSE [on |-> TRUE, R0 |-> target,
          planned |-> {o \in current_pods : pod_needs_update(pods[o], target)},
          run |-> {}, after |-> "none", down |-> {}]

\* the operator deletes the pods del: they are down until Ready again
HistDelete(del) ==
    IF hist.on THEN [hist EXCEPT !.run = @ \cup del, !.down = @ \cup del] ELSE hist

\* pod o is Ready (again)
HistReady(o) == IF hist.on THEN [hist EXCEPT !.down = @ \ {o}] ELSE hist

HistExit(how) ==
    IF hist.on /\ hist.R0 # NoRev THEN [hist EXCEPT !.after = how] ELSE hist

HistEnd == NoHist(hist.on)

\* the annotations of a StatefulSet that has none of the rollout keys
NoAnn == [state |-> StateAbsent, last_revision |-> NoRev, planned_at |-> NoStr]

\* RolloutSettings.target_namespace and target_stateful_set of the run, and
\* the StatefulSets of the cluster the handlers get events for
target_namespace == "demo"
target_stateful_set == "demo-sts"
Namespaces == {"demo", "other"}
Names == {"demo-sts", "other-sts"}

\* is_target_sts: namespace and name both match the configuration
is_target_sts_name_only(namespace, name) == name = target_stateful_set

is_target_sts(namespace, name) ==
    namespace = target_namespace /\ name = target_stateful_set

\* the StatefulSets other than the managed one
OtherIds ==
    {id \in Namespaces \X Names : id # <<target_namespace, target_stateful_set>>}

\* ------------------------------------------------------ initial state
Init ==
    /\ settings \in [enable_half_split : BOOLEAN, max_unavailable : 1..MaxUnavail]
    /\ sts \in [strategy : {"OnDelete", "RollingUpdate"},
                updateRevision : {NoRev},
                replicas : 0..MaxReplicas,
                podIndexLabel : BOOLEAN]
    /\ pods = [o \in Ords |-> [phase |-> "absent", rev |-> NoRev, ready |-> FALSE]]
    /\ ann = NoAnn
    /\ now = 0
    /\ exec = IdleExec
    /\ timer = "idle"
    /\ others = [id \in OtherIds |-> NoAnn]
    /\ ev = EnvEv
    /\ hist = NoHist(FALSE)
    /\ call = NoCall
    /\ neighbours = NoNeighbours
    /\ labels = ControllerLabels
    /\ seen = NoSeen(FALSE)

\* ------------------------------------------------------ environment
\* the StatefulSet controller computes status.updateRevision for a new object
ControllerObserve ==
    /\ sts.updateRevision = NoRev
    /\ sts' = [sts EXCEPT !.updateRevision = 1]
    /\ seen' = SeenRevision(1)
    /\ ev' = EnvEv
    /\ UNCHANGED <<settings, pods, ann, now, exec, timer, hist, others, call, neighbours, labels>>

\* a user edits the pod template: updateRevision becomes another revision
\* (an edit back to an earlier template gives the earlier revision again)
TemplateChange ==
    /\ sts.updateRevision # NoRev
    /\ \E r \in Revs \ {sts.updateRevision} :
           /\ sts' = [sts EXCEPT !.updateRevision = r]
           /\ seen' = SeenRevision(r)
    /\ ev' = EnvEv
    /\ UNCHANGED <<settings, pods, ann, now, exec, timer, hist, others, call, neighbours, labels>>

\* the controller creates a missing pod on the update revision (Parallel
\* pod management: in any order); it starts not Ready
PodCreate ==
    /\ sts.updateRevision # NoRev
    /\ \E o \in Ords :
        /\ o < sts.replicas
        /\ pods[o].phase = "absent"
        /\ pods' = [pods EXCEPT ![o] =
               [phase |-> "running", rev |-> sts.updateRevision, ready |-> FALSE]]
    /\ ev' = EnvEv
    /\ UNCHANGED <<settings, sts, ann, now, exec, timer, hist, others, call, seen, neighbours, labels>>

\* the readiness probe of a running pod succeeds
PodBecomesReady ==
    /\ \E o \in Ords :
        /\ pods[o].phase = "running" /\ ~pods[o].ready
        /\ pods' = [pods EXCEPT ![o].ready = TRUE]
        /\ hist' = HistReady(o)
    /\ ev' = EnvEv
    /\ UNCHANGED <<settings, sts, ann, now, exec, timer, others, call, seen, neighbours, labels>>

\* a pod with a deletion timestamp finishes terminating and is gone
PodTerminated ==
    /\ \E o \in Ords :
        /\ pods[o].phase = "terminating"
        /\ pods' = [pods EXCEPT ![o] =
               [phase |-> "absent", rev |-> NoRev, ready |-> FALSE]]
    /\ ev' = EnvEv
    /\ UNCHANGED <<settings, sts, ann, now, exec, timer, hist, others, call, seen, neighbours, labels>>

\* planned-at as the timer parses it
PlannedAt == StrToInt(ann.planned_at)

\* a planned record whose delay has not elapsed yet
CountdownRunning ==
    /\ ann.state = ROLL_STATE_PLANNED
    /\ ann.planned_at # NoStr
    /\ now - PlannedAt < DelaySeconds

\* one second passes.  Only the difference now - planned-at of a planned
\* record is ever read, so the clock is followed while a countdown runs
Tick ==
    /\ CountdownRunning
    /\ now < MaxTime
    /\ now' = now + 1
    /\ ev' = EnvEv
    /\ UNCHANGED <<settings, sts, pods, ann, exec, timer, hist, others, call, seen, neighbours, labels>>

\* ------------------------------------------------------ DelayGate
\* a mutant of DelayElapsed: the comparison off by one second
DelayElapsed_early(t, planned_at_str) ==
    DelaySeconds - (t - StrToInt(planned_at_str)) <= 1

\* check_rollout_timer: remaining = delay_seconds - waited is not > 0
DelayElapsed(t, planned_at_str) ==
    LET planned_at == StrToInt(planned_at_str)
        waited == t - planned_at
        remaining == DelaySeconds - waited
    IN  ~(remaining > 0)

\* a mutant of TimerDecision: the state of the record is not looked at
TimerDecision_no_state ==
    IF /\ ann.planned_at # NoStr
       /\ DelayElapsed(now, ann.planned_at)
    THEN "patch" ELSE "return"

\* check_rollout_timer: what a tick does with the record it reads
TimerDecision ==
    IF /\ ann.state = ROLL_STATE_PLANNED
       /\ ann.planned_at # NoStr
       /\ DelayElapsed(now, ann.planned_at)
    THEN "patch" ELSE "return"

\* check_rollout_timer up to its patch call: read the annotations, return
\* unless state is planned, planned-at is set and the delay has elapsed (a
\* tick that returns changes nothing)
TimerRead ==
    /\ timer = "idle"
    /\ TimerDecision = "patch"
    /\ timer' = "patch"
    /\ ev' = Ev("rollout_delay_elapsed", NoPatch, {}, 0, NoRev)
    /\ UNCHANGED <<settings, sts, pods, ann, now, exec, hist, others, call, seen, neighbours, labels>>

\* a mutant of TimerPatchBody: the tick also writes the revision and the
\* time it read, over what the watcher wrote meanwhile
TimerPatchBody_full ==
    set_annotations_patch(ROLL_STATE_ROLLING, sts.updateRevision, IntToStr(now))

\* the patch check_rollout_timer sends
TimerPatchBody == set_annotations_patch(ROLL_STATE_ROLLING, NoRev, NoStr)

\* check_rollout_timer: patch_namespaced_stateful_set(state=rolling)
TimerPatch ==
    /\ timer = "patch"
    /\ ann' = MergePatch(ann, TimerPatchBody)
    /\ timer' = "idle"
    /\ ev' = Ev("timer_patch", TimerPatchBody, {}, 0, NoRev)
    /\ UNCHANGED <<settings, sts, pods, now, exec, hist, others, call, seen, neighbours, labels>>

\* ------------------------------------------------------ ChangeWatcher
\* int(s) does not raise ValueError: an optional minus sign, then digits
int_ok(s) ==
    LET body == IF s # <<>> /\ s[1] = "-" THEN Tail(s) ELSE s
    IN  body # <<>> /\ \A i \in DOMAIN body : IsDigitChar(body[i])

\* int(s) for a text int_ok accepts
int_value(s) ==
    LET neg == s[1] = "-"
        body == IF neg THEN Tail(s) ELSE s
        n == StrToInt([i \in DOMAIN body |-> DigitValue(body[i])])
    IN  IF neg THEN 0 - n ELSE n

\* Optional[int]
None == [some |-> FALSE, val |-> 0]
Some(n) == [some |-> TRUE, val |-> n]

\* s.startswith(prefix)
startswith(s, prefix) ==
    Len(s) >= Len(prefix) /\ SubSeq(s, 1, Len(prefix)) = prefix

\* the name part of get_ordinal: the suffix after "<sts-name>-" as integer
ordinal_from_name(pod, sts_name) ==
    LET prefix == sts_name \o <<"-">>
    IN  IF ~startswith(pod.name, prefix) THEN None
        ELSE LET suffix == SubSeq(pod.name, Len(prefix) + 1, Len(pod.name))
             IN  IF int_ok(suffix) THEN Some(int_value(suffix)) ELSE None

\* a mutant of get_ordinal: an unparseable label falls back to the name
get_ordinal_fallback(pod, sts_name) ==
    IF pod.metadata /\ pod.has_index /\ int_ok(pod.index)
    THEN Some(int_value(pod.index))
    ELSE IF ~pod.metadata THEN None
    ELSE ordinal_from_name(pod, sts_name)

\* get_ordinal: the pod-index label parsed as an integer when the label is
\* there (None when it does not parse), else the suffix of the name.  A pod
\* is [metadata, has_index, index, name]: whether it has metadata, whether
\* its labels hold the pod-index label, the label's value, its name
get_ordinal(pod, sts_name) ==
    IF pod.metadata /\ pod.has_index
    THEN IF int_ok(pod.index) THEN Some(int_value(pod.index)) ELSE None
    ELSE IF ~pod.metadata THEN None
    ELSE ordinal_from_name(pod, sts_name)

\* the name of the managed StatefulSet as a text, and the pod in slot o as
\* get_ordinal sees it: named <sts>-o, labelled with its index when the
\* cluster sets the pod-index label
StsNameText == <<"s", "t", "s">>

PodObject(o) ==
    [metadata |-> TRUE, has_index |-> sts.podIndexLabel, index |-> labels[o],
     name |-> StsNameText \o <<"-">> \o str(o)]

\* a mutant of OrdinalIn: the ordinal is taken from the name of the pod
OrdinalIn_by_name(o, batch) == o \in batch

\* ord_ in batch, for the pod in slot o
OrdinalIn(o, batch) ==
    LET ord_ == get_ordinal(PodObject(o), StsNameText)
    IN  ord_.some /\ ord_.val \in batch

\* a mutant of missing_index: the label check finds nothing
missing_index_none == {}

\* on_sts_change: pods without the pod-index label
missing_index == {o \in current_pods : ~sts.podIndexLabel}

\* a mutant of AlreadyProcessed: no revision counts as processed
AlreadyProcessed_never(update_revision, last_revision, state) == FALSE

\* on_sts_change: the early return for a revision already processed
AlreadyProcessed(update_revision, last_revision, state) ==
    /\ update_revision = last_revision
    /\ state \in {ROLL_STATE_DONE, ROLL_STATE_NONE}

\* a mutant of DetectionPatch: the timestamp is left out
DetectionPatch_no_time(update_revision, t) ==
    set_annotations_patch(ROLL_STATE_PLANNED, update_revision, NoStr)

\* on_sts_change: the patch that records a planned rollout
DetectionPatch(update_revision, t) ==
    set_annotations_patch(ROLL_STATE_PLANNED, update_revision, IntToStr(t))

\* the patch that marks the rollout done
DonePatch(target_revision) ==
    set_annotations_patch(ROLL_STATE_DONE, target_revision, NoStr)

\* a mutant of SupersessionPatch: the rollout is also marked done
SupersessionPatch_done(current_update_revision) ==
    set_annotations_patch(ROLL_STATE_DONE, current_update_revision, NoStr)

\* _execute_rollout: the patch that records a superseding revision
SupersessionPatch(current_update_revision) ==
    set_annotations_patch(StateAbsent, current_update_revision, NoStr)

\* a mutant of StartTarget: the executor targets the recorded last-revision
StartTarget_recorded(update_revision) == ann.last_revision

\* on_sts_change: original_target_revision = update_revision
StartTarget(update_revision) == update_revision

Outcome(op, patch) == [op |-> op, patch |-> patch]

\* a mutant of Dispatch: no early return for a processed revision, and a
\* record in state none or done is planned again on every event
Dispatch_replan(update_revision, last_revision, state, planned_at_str) ==
    IF sts.strategy # "OnDelete" THEN Outcome("skip_wrong_strategy", NoPatch)
    ELSE IF update_revision = NoRev THEN Outcome("no_update_revision", NoPatch)
    ELSE IF current_pods = {} THEN Outcome("no_pods_found", NoPatch)
    ELSE IF missing_index # {} THEN Outcome("missing_pod_index_label", NoPatch)
    ELSE IF state \in {ROLL_STATE_NONE, ROLL_STATE_DONE}
         THEN Outcome("revision_detected", DetectionPatch(update_revision, now))
    ELSE IF state = ROLL_STATE_PLANNED
         THEN Outcome("planned_wait", NoPatch)
    ELSE Outcome("rollout_started", NoPatch)

\* a mutant of Dispatch: a planned rollout is executed without the delay
Dispatch_eager(update_revision, last_revision, state, planned_at_str) ==
    IF sts.strategy # "OnDelete" THEN Outcome("skip_wrong_strategy", NoPatch)
    ELSE IF update_revision = NoRev THEN Outcome("no_update_revision", NoPatch)
    ELSE IF AlreadyProcessed(update_revision, last_revision, state)
         THEN Outcome("revision_complete", NoPatch)
    ELSE IF current_pods = {} THEN Outcome("no_pods_found", NoPatch)
    ELSE IF missing_index # {} THEN Outcome("missing_pod_index_label", NoPatch)
    ELSE IF state \in {ROLL_STATE_NONE, ROLL_STATE_DONE} /\ needs_rollout
         THEN Outcome("revision_detected", DetectionPatch(update_revision, now))
    ELSE IF state \in {ROLL_STATE_PLANNED, ROLL_STATE_ROLLING}
         THEN IF {o \in current_pods : pod_needs_update(pods[o], update_revision)} = {}
              THEN Outcome("rollout_already_complete", DonePatch(update_revision))
              ELSE Outcome("rollout_started", NoPatch)
    ELSE Outcome("no_action", NoPatch)

\* a mutant of Dispatch: an event during planned plans the rollout again
Dispatch_replan_planned(update_revision, last_revision, state, planned_at_str) ==
    IF sts.strategy # "OnDelete" THEN Outcome("skip_wrong_strategy", NoPatch)
    ELSE IF update_revision = NoRev THEN Outcome("no_update_revision", NoPatch)
    ELSE IF AlreadyProcessed(update_revision, last_revision, state)
         THEN Outcome("revision_complete", NoPatch)
    ELSE IF current_pods = {} THEN Outcome("no_pods_found", NoPatch)
    ELSE IF missing_index # {} THEN Outcome("missing_pod_index_label", NoPatch)
    ELSE IF state \in {ROLL_STATE_NONE, ROLL_STATE_DONE} /\ needs_rollout
         THEN Outcome("revision_detected", DetectionPatch(update_revision, now))
    ELSE IF state = ROLL_STATE_PLANNED
         THEN Outcome("rollout_planned", DetectionPatch(update_revision, now))
    ELSE IF state = ROLL_STATE_ROLLING
         THEN IF {o \in current_pods : pod_needs_update(pods[o], update_revision)} = {}
              THEN Outcome("rollout_already_complete", DonePatch(update_revision))
              ELSE Outcome("rollout_started", NoPatch)
    ELSE Outcome("no_action", NoPatch)

\* a mutant of Dispatch: no check of the update strategy
Dispatch_nostrategy(update_revision, last_revision, state, planned_at_str) ==
    IF update_revision = NoRev THEN Outcome("no_update_revision", NoPatch)
    ELSE IF AlreadyProcessed(update_revision, last_revision, state)
         THEN Outcome("revision_complete", NoPatch)
    ELSE IF current_pods = {} THEN Outcome("no_pods_found", NoPatch)
    ELSE IF missing_index # {} THEN Outcome("missing_pod_index_label", NoPatch)
    ELSE IF state \in {ROLL_STATE_NONE, ROLL_STATE_DONE} /\ needs_rollout
         THEN Outcome("revision_detected", DetectionPatch(update_revision, now))
    ELSE IF state = ROLL_STATE_PLANNED
         THEN IF planned_at_str = NoStr
              THEN Outcome("rollout_planned",
                           set_annotations_patch(StateAbsent, NoRev, IntToStr(now)))
              ELSE Outcome("planned_wait", NoPatch)
    ELSE IF state = ROLL_STATE_ROLLING
         THEN IF {o \in current_pods : pod_needs_update(pods[o], update_revision)} = {}
              THEN Outcome("rollout_already_complete", DonePatch(update_revision))
              ELSE Outcome("rollout_started", NoPatch)
    ELSE Outcome("no_action", NoPatch)

\* on_sts_change: which branch the handler takes for the event, and the
\* patch it returns with ("rollout_started": it goes on into the executor)
Dispatch(update_revision, last_revision, state, planned_at_str) ==
    IF sts.strategy # "OnDelete" THEN Outcome("skip_wrong_strategy", NoPatch)
    ELSE IF update_revision = NoRev THEN Outcome("no_update_revision", NoPatch)
    ELSE IF AlreadyProcessed(update_revision, last_revision, state)
         THEN Outcome("revision_complete", NoPatch)
    ELSE IF current_pods = {} THEN Outcome("no_pods_found", NoPatch)
    ELSE IF missing_index # {} THEN Outcome("missing_pod_index_label", NoPatch)
    ELSE IF state \in {ROLL_STATE_NONE, ROLL_STATE_DONE} /\ needs_rollout
         THEN Outcome("revision_detected", DetectionPatch(update_revision, now))
    ELSE IF state = ROLL_STATE_PLANNED
         THEN IF planned_at_str = NoStr
              THEN Outcome("rollout_planned",
                           set_annotations_patch(StateAbsent, NoRev, IntToStr(now)))
              ELSE Outcome("planned_wait", NoPatch)
    ELSE IF state = ROLL_STATE_ROLLING
         THEN IF {o \in current_pods : pod_needs_update(pods[o], update_revision)} = {}
              THEN Outcome("rollout_already_complete", DonePatch(update_revision))
              ELSE Outcome("rollout_started", NoPatch)
    ELSE Outcome("no_action", NoPatch)

\* the branches of on_sts_change that return without entering the executor
WatcherReturns ==
    {"skip_wrong_strategy", "no_update_revision", "revision_complete",
     "no_pods_found", "missing_pod_index_label", "revision_detected",
     "rollout_planned", "planned_wait", "rollout_already_complete", "no_action"}

\* on_sts_change, from the event to its return (the runtime then applies the
\* patch object) or to the first batch of the executor it awaits
on_sts_change ==
    /\ exec.pc = "idle"
    /\ LET update_revision == sts.updateRevision
           d == Dispatch(update_revision, ann.last_revision, ReadState, ann.planned_at)
       IN  IF d.op = "rollout_started"
           THEN /\ exec' = [pc |-> "batch",
                            R0 |-> StartTarget(update_revision),
                            replicas |-> sts.replicas,
                            idx |-> 1]
                /\ ev' = Ev(d.op, NoPatch, {}, 1, StartTarget(update_revision))
                /\ hist' = HistStart(StartTarget(update_revision))
                /\ UNCHANGED <<settings, sts, pods, ann, now, timer, others, call, seen, neighbours, labels>>
           ELSE /\ ann' = MergePatch(ann, d.patch)
                /\ ev' = Ev(d.op, d.patch, {}, 0, NoRev)
                /\ hist' = IF d.op = "rollout_already_complete" THEN HistEnd ELSE hist
                /\ seen' = IF d.op = "revision_detected" THEN SeenDetection ELSE seen
                /\ UNCHANGED <<settings, sts, pods, now, exec, timer, others, call, neighbours, labels>>

\* ------------------------------------------------------ RolloutExecutor
CurrentBatch == SeqToSet(Plan(exec.replicas)[exec.idx])

\* _execute_rollout, top of the batch loop: check_for_new_revision differs
\* from the original target
ExecSupersede ==
    /\ exec.pc = "batch"
    /\ exec.idx <= Len(Plan(exec.replicas))
    /\ sts.updateRevision # exec.R0
    /\ LET patch == SupersessionPatch(sts.updateRevision)
       IN  /\ ann' = MergePatch(ann, patch)
           /\ exec' = IdleExec
           /\ ev' = Ev("rollout_interrupted", patch, {}, exec.idx, exec.R0)
    /\ hist' = HistEnd
    /\ UNCHANGED <<settings, sts, pods, now, timer, others, call, seen, neighbours, labels>>

\* a mutant of to_delete: every listed pod of the batch
to_delete_listed(batch, target_revision) ==
    {o \in current_pods : OrdinalIn(o, batch)}

\* delete_batch: the listed pods of the batch that need update
to_delete(batch, target_revision) ==
    {o \in current_pods :
        OrdinalIn(o, batch) /\ pod_needs_update(pods[o], target_revision)}

\* _execute_rollout: continue when nothing was deleted, else wait for Ready
AfterDelete(deleted_count) == IF deleted_count = 0 THEN "batch" ELSE "wait"

\* _execute_rollout, one batch: revision unchanged, delete_batch, then
\* either continue with the next batch or start waiting
ExecDeleteBatch ==
    /\ exec.pc = "batch"
    /\ exec.idx <= Len(Plan(exec.replicas))
    /\ sts.updateRevision = exec.R0
    /\ LET del == to_delete(CurrentBatch, exec.R0)
           next == AfterDelete(Cardinality(del))
       IN  /\ pods' = [o \in Ords |->
                  IF o \in del
                  THEN [phase |-> "terminating", rev |-> pods[o].rev, ready |-> FALSE]
                  ELSE pods[o]]
           /\ exec' = IF next = "batch"
                      THEN [exec EXCEPT !.idx = @ + 1]
                      ELSE [exec EXCEPT !.pc = "wait"]
           /\ ev' = Ev("delete_batch", NoPatch, del, exec.idx, exec.R0)
           /\ hist' = HistDelete(del)
    /\ UNCHANGED <<settings, sts, ann, now, timer, others, call, seen, neighbours, labels>>

\* delete_batch when a listed pod is gone before its delete is issued: a
\* pod that was terminating when the pods were listed (ordinal g) finishes
\* terminating; the deletes of the pods listed before it succeed, the
\* delete of g is answered 404 and delete_namespaced_pod raises
\* ApiException, which nothing catches: the handler fails and is retried
ExecDeleteGone ==
    /\ exec.pc = "batch"
    /\ exec.idx <= Len(Plan(exec.replicas))
    /\ sts.updateRevision = exec.R0
    /\ LET del == to_delete(CurrentBatch, exec.R0)
       IN  \E g \in del :
             /\ pods[g].phase = "terminating"
             /\ LET done == {o \in del : o < g}
                IN  /\ pods' = [o \in Ords |->
                           IF o = g
                           THEN [phase |-> "absent", rev |-> NoRev, ready |-> FALSE]
                           ELSE IF o \in done
                           THEN [phase |-> "terminating", rev |-> pods[o].rev,
                                 ready |-> FALSE]
                           ELSE pods[o]]
                    /\ ev' = Ev("delete_not_found", NoPatch, done, exec.idx, exec.R0)
                    /\ hist' = [HistExit("error") EXCEPT
                                   !.down = IF hist.on THEN @ \cup done ELSE @]
    /\ exec' = IdleExec
    /\ UNCHANGED <<settings, sts, ann, now, timer, others, call, seen, neighbours, labels>>

\* wait_pods_ready, a poll that succeeds: every ordinal of the batch has a
\* pod without deletion timestamp that is Ready
WaitReady ==
    /\ exec.pc = "wait"
    /\ CanPollReady(CurrentBatch)
    /\ exec' = [exec EXCEPT !.pc = "batch", !.idx = @ + 1]
    /\ ev' = Ev("batch_ready", NoPatch, {}, exec.idx, exec.R0)
    /\ UNCHANGED <<settings, sts, pods, ann, now, timer, hist, others, call, seen, neighbours, labels>>

\* wait_pods_ready reaches its deadline: kopf.TemporaryError, nothing written
WaitTimeout ==
    /\ exec.pc = "wait"
    /\ CanPollNotReady(CurrentBatch)
    /\ exec' = IdleExec
    /\ ev' = Ev("wait_timeout", NoPatch, {}, exec.idx, exec.R0)
    /\ hist' = HistExit("timeout")
    /\ UNCHANGED <<settings, sts, pods, ann, now, timer, others, call, seen, neighbours, labels>>

\* _execute_rollout: the revision written with state=done
FinalizeTarget(target_revision) == target_revision

\* a mutant of FinalizeOutcome: done is not written while pods are outdated
FinalizeOutcome_strict(pods_still_outdated, target_revision) ==
    IF pods_still_outdated # {}
    THEN Outcome("rollout_incomplete", NoPatch)
    ELSE Outcome("rollout_completed", DonePatch(FinalizeTarget(target_revision)))

\* _execute_rollout after the last batch: the warning "rollout_incomplete"
\* when pods are still outdated, and in both cases the patch state=done
FinalizeOutcome(pods_still_outdated, target_revision) ==
    Outcome(IF pods_still_outdated # {}
            THEN "rollout_incomplete" ELSE "rollout_completed",
            DonePatch(FinalizeTarget(target_revision)))

\* _execute_rollout after the last batch: warn about outdated pods, write
\* state=done and last-revision
ExecFinalize ==
    /\ exec.pc = "batch"
    /\ exec.idx > Len(Plan(exec.replicas))
    /\ LET pods_still_outdated ==
               {o \in current_pods : pod_needs_update(pods[o], exec.R0)}
           f == FinalizeOutcome(pods_still_outdated, exec.R0)
       IN  /\ ann' = MergePatch(ann, f.patch)
           /\ exec' = IdleExec
           /\ ev' = Ev(f.op, f.patch, {}, exec.idx, exec.R0)
    /\ hist' = HistEnd
    /\ UNCHANGED <<settings, sts, pods, now, timer, others, call, seen, neighbours, labels>>

\* the operator process is restarted: running handlers are lost with their
\* unapplied patches
Crash ==
    /\ exec.pc # "idle" \/ timer # "idle"
    /\ exec' = IdleExec
    /\ timer' = "idle"
    /\ ev' = Ev("crash", NoPatch, {}, 0, NoRev)
    /\ hist' = IF exec.pc # "idle" THEN HistExit("crash") ELSE hist
    /\ UNCHANGED <<settings, sts, pods, ann, now, others, call, seen, neighbours, labels>>

Next ==
    \/ ControllerObserve
    \/ TemplateChange
    \/ PodCreate
    \/ PodBecomesReady
    \/ PodTerminated
    \/ Tick
    \/ TimerRead
    \/ TimerPatch
    \/ on_sts_change
    \/ ExecSupersede
    \/ ExecDeleteBatch
    \/ ExecDeleteGone
    \/ WaitReady
    \/ WaitTimeout
    \/ ExecFinalize
    \/ Crash

Spec == Init /\ [][Next]_vars

\* ------------------------------------------------------ properties
\* the handler steps that write state=done
DoneOps == {"rollout_completed", "rollout_incomplete", "rollout_already_complete"}

\* the batch the last delete_batch worked on, and the one before it
BatchAt(i) == SeqToSet(Plan(exec.replicas)[i])

\* C1: every pod the executor issues a delete for had, in the pod list of
\* that batch, a controller-revision-hash different from the target R0
C1_DeletedPodsAreOutdated ==
    ev.op \in DeleteOps =>
        \A o \in ev.del : pods[o].phase = "terminating" /\ pods[o].rev # ev.R0

C1_Witness ==
    /\ ev.op = "delete_batch"
    /\ ev.del # {}
    /\ \E o \in current_pods : o \notin ev.del /\ pods[o].rev = ev.R0

\* C2: when the executor deletes pods of a batch, every ordinal of the
\* batch before it in the plan has a pod that is not terminating and Ready
C2_PreviousBatchReady ==
    (ev.op = "delete_batch" /\ ev.del # {} /\ ev.idx > 1) =>
        \A o \in BatchAt(ev.idx - 1) : PodReady(o)

\* C3: a batch never has more than max_unavailable pods targeted for deletion
C3_BatchWithinMaxUnavailable ==
    ev.op \in DeleteOps => Cardinality(ev.del) <= settings.max_unavailable

C3_Witness ==
    /\ ev.op = "delete_batch"
    /\ Cardinality(ev.del) = settings.max_unavailable
    /\ settings.max_unavailable > 1

\* C4: a planned record leaves planned only to rolling, and only at a time
\* at least DelaySeconds after planned-at
C4_DelayRespected ==
    [][(ann.state = ROLL_STATE_PLANNED /\ ann'.state # ROLL_STATE_PLANNED) =>
          /\ ann'.state = ROLL_STATE_ROLLING
          /\ ann.planned_at # NoStr
          /\ now' - StrToInt(ann.planned_at) >= DelaySeconds]_vars

C4_Witness ==
    /\ ev.op = "timer_patch"
    /\ ann.state = ROLL_STATE_ROLLING
    /\ now - StrToInt(ann.planned_at) = DelaySeconds

\* C5: every write of state=done carries as last-revision the
\* updateRevision the StatefulSet has at that moment
C5_DoneRevisionIsCurrent ==
    ev.op \in DoneOps => ev.patch.last_revision = sts.updateRevision

\* a step of on_sts_change that returned without entering the executor
WatcherReturned == exec.pc = "idle" /\ ev' # ev /\ ev'.op \in WatcherReturns

\* status.replicas > status.updatedReplicas
Outstanding == StatusReplicas > StatusUpdatedReplicas

\* C7: an event in state none or done with an update revision, labelled
\* pods and outstanding work makes the watcher write state=planned,
\* last-revision=updateRevision and planned-at=now in one patch, whatever
\* last-revision is
C7_OutstandingWorkIsPlanned ==
    [][(/\ WatcherReturned
        /\ sts.strategy = "OnDelete"
        /\ sts.updateRevision # NoRev
        /\ ReadState \in {ROLL_STATE_NONE, ROLL_STATE_DONE}
        /\ current_pods # {}
        /\ sts.podIndexLabel
        /\ Outstanding)
       => /\ ev'.patch = [state |-> ROLL_STATE_PLANNED,
                          last_revision |-> sts.updateRevision,
                          planned_at |-> IntToStr(now)]
          /\ ann'.state = ROLL_STATE_PLANNED
          /\ ann'.last_revision = sts.updateRevision
          /\ StrToInt(ann'.planned_at) = now]_vars

\* C8: an event in state none or done with updateRevision equal to
\* last-revision and no outstanding work writes no annotation and deletes
\* no pod
C8_ProcessedRevisionIsLeftAlone ==
    [][(/\ WatcherReturned
        /\ ReadState \in {ROLL_STATE_NONE, ROLL_STATE_DONE}
        /\ sts.updateRevision = ann.last_revision
        /\ ~Outstanding)
       => /\ ann' = ann
          /\ pods' = pods
          /\ ev'.patch = NoPatch
          /\ ev'.del = {}]_vars

C8_Witness ==
    /\ ev.op = "revision_complete"
    /\ ann.state = ROLL_STATE_DONE
    /\ sts.updateRevision = ann.last_revision
    /\ ~Outstanding
    /\ current_pods # {}

\* C9: the executor deletes pods of a batch only when the revision it has
\* just re-read is R0; when it differs, the executor returns with a patch
\* of last-revision=R' alone, state stays rolling, nothing is deleted
C9_SupersessionExit ==
    /\ ev.op \in DeleteOps => ev.R0 = sts.updateRevision
    /\ ev.op = "rollout_interrupted" =>
        /\ ev.patch = [last_revision |-> sts.updateRevision]
        /\ sts.updateRevision # ev.R0
        /\ ann.state = ROLL_STATE_ROLLING
        /\ ann.last_revision = sts.updateRevision
        /\ ev.del = {}
        /\ exec.pc = "idle"

C9_Witness ==
    /\ ev.op = "rollout_interrupted"
    /\ ann.state = ROLL_STATE_ROLLING
    /\ \E o \in current_pods : pods[o].rev = ev.R0

\* C10: the executor leaves a readiness wait only by the wait ending (Ready,
\* deadline, process restart), never with a supersession write; the
\* supersession exit is taken at the top of a batch; and every invocation
\* of the executor starts at the first batch of the plan for the current
\* replicas, with the current updateRevision as its target
C10_ExitAtBoundaryAndFreshPlan ==
    [][/\ (exec.pc = "wait" /\ exec'.pc # "wait") =>
              /\ ann' = ann
              /\ ev'.op \in {"batch_ready", "wait_timeout", "crash"}
       /\ (ev' # ev /\ ev'.op = "rollout_interrupted") => exec.pc = "batch"
       /\ (exec.pc = "idle" /\ exec'.pc # "idle") =>
              /\ exec'.pc = "batch"
              /\ exec'.idx = 1
              /\ exec'.R0 = sts.updateRevision
              /\ exec'.replicas = sts.replicas]_vars

C10_Witness ==
    /\ ev.op = "rollout_interrupted"
    /\ ev.idx > 1
    /\ exec.pc = "idle"
    /\ ann.last_revision # ev.R0

\* C15: when a targeted pod is gone by the time its delete is issued (404),
\* the executor carries on: every pod still targeted in the batch is
\* deleted and the executor waits for the batch to become Ready
C15_NotFoundIsSuccess ==
    ev.op = "delete_not_found" =>
        /\ exec.pc = "wait"
        /\ \A o \in SeqToSet(Plan(sts.replicas)[ev.idx]) :
              (pods[o].phase # "absent" /\ pods[o].rev # ev.R0) =>
                  pods[o].phase = "terminating"

\* ------------------------------------------------------ liveness
\* the clock while a countdown runs, without the cap
TickLive ==
    /\ CountdownRunning
    /\ now' = now + 1
    /\ ev' = EnvEv
    /\ UNCHANGED <<settings, sts, pods, ann, exec, timer, hist, others, call, seen, neighbours, labels>>

\* template edits that leave a recorded rollout alone: none while the
\* record is planned or rolling
TemplateChangeLive ==
    /\ ReadState \in {ROLL_STATE_NONE, ROLL_STATE_DONE}
    /\ now < MaxTime
    /\ TemplateChange

NextLive ==
    \/ ControllerObserve
    \/ TemplateChangeLive
    \/ PodCreate
    \/ PodBecomesReady
    \/ PodTerminated
    \/ TickLive
    \/ TimerRead
    \/ TimerPatch
    \/ on_sts_change
    \/ ExecDeleteBatch
    \/ ExecDeleteGone
    \/ WaitReady
    \/ WaitTimeout
    \/ ExecFinalize

\* fair delivery of change events and timer ticks, a controller that keeps
\* recreating pods, pods that become Ready
LiveSpec ==
    /\ Init
    /\ [][NextLive]_vars
    /\ WF_vars(PodCreate)
    /\ WF_vars(PodBecomesReady)
    /\ WF_vars(PodTerminated)
    /\ WF_vars(TickLive)
    /\ WF_vars(TimerRead)
    /\ WF_vars(TimerPatch)
    /\ WF_vars(on_sts_change)
    /\ WF_vars(ExecDeleteBatch)
    /\ WF_vars(WaitReady)
    /\ WF_vars(ExecFinalize)

\* C6: a planned rollout eventually reaches done, and the write of done
\* finds every pod on updateRevision
C6_PlannedLeadsToDone ==
    /\ (ann.state = ROLL_STATE_PLANNED) ~> (ann.state = ROLL_STATE_DONE)
    /\ [](ev.op \in DoneOps =>
            \A o \in current_pods : pods[o].rev = sts.updateRevision)

C6_Witness ==
    /\ ev.op = "rollout_completed"
    /\ ann.state = ROLL_STATE_DONE
    /\ sts.replicas = MaxReplicas
    /\ \A o \in Ords : o < sts.replicas => PodReady(o) /\ pods[o].rev = sts.updateRevision
    /\ sts.updateRevision # 1

\* ------------------------------------------------------ one rollout
\* a managed StatefulSet (OnDelete, labelled pods) of up to MaxOrdinals
\* replicas, with the deletions of the rollout in progress recorded
InitStable ==
    /\ settings \in [enable_half_split : BOOLEAN, max_unavailable : 1..MaxUnavail]
    /\ sts \in [strategy : {"OnDelete"},
                updateRevision : {NoRev},
                replicas : 2..MaxOrdinals,
                podIndexLabel : {TRUE}]
    /\ pods = [o \in Ords |-> [phase |-> "absent", rev |-> NoRev, ready |-> FALSE]]
    /\ ann = NoAnn
    /\ now = 0
    /\ exec = IdleExec
    /\ timer = "idle"
    /\ others = [id \in OtherIds |-> NoAnn]
    /\ ev = EnvEv
    /\ hist = NoHist(TRUE)
    /\ call = NoCall
    /\ neighbours = NoNeighbours
    /\ labels = ControllerLabels
    /\ seen = NoSeen(FALSE)

\* the template is not edited while a rollout is planned or rolling; the
\* operator process may be restarted at any point
NextStable ==
    \/ NextLive
    \/ Crash

StableSpec == InitStable /\ [][NextStable]_vars

\* C11: with halves enabled and replicas N > 1, within one executor
\* invocation no pod of the upper half (ordinal >= N div 2) is deleted after
\* a pod of the lower half, and within a half a later batch deletes only
\* higher ordinals than the ones deleted before
C11_UpperHalfFirstAscending ==
    [][(/\ ev' # ev
        /\ ev'.op \in DeleteOps
        /\ settings.enable_half_split
        /\ sts.replicas > 1)
       => LET mid == sts.replicas \div 2
          IN  \A o \in ev'.del : \A p \in hist.run :
                /\ ~(p < mid /\ o >= mid)
                /\ ((p < mid) = (o < mid)) => p < o]_vars

C11_Witness ==
    /\ ev.op = "delete_batch"
    /\ settings.enable_half_split
    /\ settings.max_unavailable = 1
    /\ sts.replicas = MaxOrdinals
    /\ \E o \in ev.del : o < sts.replicas \div 2
    /\ Cardinality({p \in hist.run : p >= sts.replicas \div 2}) >= 2

\* ------------------------------------------------------ a wider cluster
\* a user changes spec.updateStrategy.type of the managed StatefulSet
StrategyChange ==
    /\ sts' = [sts EXCEPT !.strategy =
                  IF @ = "OnDelete" THEN "RollingUpdate" ELSE "OnDelete"]
    /\ ev' = EnvEv
    /\ UNCHANGED <<settings, pods, ann, now, exec, timer, hist, others, call, seen, neighbours, labels>>

\* the pod-index labels are taken off the pods, or put back
LabelChange ==
    /\ sts' = [sts EXCEPT !.podIndexLabel = ~@]
    /\ ev' = EnvEv
    /\ UNCHANGED <<settings, pods, ann, now, exec, timer, hist, others, call, seen, neighbours, labels>>

\* the other StatefulSets of the cluster are OnDelete, on this update
\* revision, with labelled pods that are not all updated
OtherUpdateRevision == 1

\* on_sts_change for an event of another StatefulSet: return unless
\* is_target_sts; past that check the handler works on the event's object
\* (followed here up to the patch that plans a rollout)
on_other_sts_change ==
    /\ \E id \in OtherIds :
        LET a == others[id]
            state == IF a.state = StateAbsent THEN ROLL_STATE_NONE ELSE a.state
            patch ==
                IF ~is_target_sts(id[1], id[2]) THEN NoPatch
                ELSE IF AlreadyProcessed(OtherUpdateRevision, a.last_revision, state)
                     THEN NoPatch
                ELSE IF state \in {ROLL_STATE_NONE, ROLL_STATE_DONE}
                     THEN DetectionPatch(OtherUpdateRevision, now)
                ELSE NoPatch
        IN  /\ others' = [others EXCEPT ![id] = MergePatch(a, patch)]
            /\ ev' = Ev("other_sts_change", patch, {}, 0, NoRev)
    /\ UNCHANGED <<settings, sts, pods, ann, now, exec, timer, hist, call, seen, neighbours, labels>>

\* check_rollout_timer for another StatefulSet: return unless is_target_sts;
\* past that check a planned record whose delay has elapsed is set rolling
other_rollout_timer ==
    /\ \E id \in OtherIds :
        LET a == others[id]
            patch ==
                IF /\ is_target_sts(id[1], id[2])
                   /\ a.state = ROLL_STATE_PLANNED
                   /\ a.planned_at # NoStr
                   /\ DelayElapsed(now, a.planned_at)
                THEN TimerPatchBody ELSE NoPatch
        IN  /\ others' = [others EXCEPT ![id] = MergePatch(a, patch)]
            /\ ev' = Ev("other_timer", patch, {}, 0, NoRev)
    /\ UNCHANGED <<settings, sts, pods, ann, now, exec, timer, hist, call, seen, neighbours, labels>>

NextWide ==
    \/ Next
    \/ StrategyChange
    \/ LabelChange
    \/ on_other_sts_change
    \/ other_rollout_timer

WideSpec == Init /\ [][NextWide]_vars

\* the steps of on_sts_change for the managed StatefulSet
WatcherOps == WatcherReturns \cup {"rollout_started"}

\* pods of the managed StatefulSet that are not on its update revision
OutdatedPods == {o \in current_pods : pods[o].rev # sts.updateRevision}

\* C12: a change event of the managed StatefulSet while its update
\* strategy is not OnDelete is skipped: the watcher writes no annotation,
\* deletes no pod and starts no executor, whatever the rollout state
C12_WrongStrategyIsSkipped ==
    [][(/\ ev' # ev
        /\ ev'.op \in WatcherOps
        /\ sts.strategy # "OnDelete")
       => /\ ev'.op = "skip_wrong_strategy"
          /\ ev'.patch = NoPatch
          /\ ev'.del = {}
          /\ ann' = ann
          /\ pods' = pods
          /\ exec' = exec]_vars

C12_Witness ==
    /\ ev.op = "skip_wrong_strategy"
    /\ ann.state = ROLL_STATE_ROLLING
    /\ sts.podIndexLabel
    /\ OutdatedPods # {}

\* the steps of the handlers for events of other StatefulSets
OtherOps == {"other_sts_change", "other_timer"}

\* C13: no other StatefulSet ever carries a rollout annotation, and a
\* change event or timer tick of another StatefulSet writes no annotation
\* anywhere and deletes no pod
C13_OtherStatefulSetsUntouched ==
    /\ [](\A id \in OtherIds : others[id] = NoAnn)
    /\ [][(ev' # ev /\ ev'.op \in OtherOps)
           => /\ ev'.patch = NoPatch
              /\ ev'.del = {}
              /\ others' = others
              /\ ann' = ann
              /\ pods' = pods
              /\ exec' = exec]_vars

C13_Witness ==
    /\ ev.op \in OtherOps
    /\ ann.state = ROLL_STATE_ROLLING
    /\ OutdatedPods # {}
    /\ \A id \in OtherIds : others[id] = NoAnn

C16_TimeoutKeepsStateRerunSkipsUpdated ==
    [][/\ (ev' # ev /\ ev'.op = "wait_timeout") =>
              /\ ev'.patch = NoPatch
              /\ ann' = ann
              /\ ann.state = ROLL_STATE_ROLLING
              /\ pods' = pods
              /\ exec'.pc = "idle"
       /\ (ev' # ev /\ ev'.op \in DeleteOps /\ hist.after = "timeout") =>
              \A o \in current_pods :
                  /\ o \in ev'.del => pods[o].rev # exec.R0
                  /\ pods[o].rev = exec.R0 => pods'[o] = pods[o]]_vars

C16_Witness ==
    /\ ev.op = "delete_batch"
    /\ hist.after = "timeout"
    /\ ev.del # {}
    /\ \E o \in SeqToSet(Plan(sts.replicas)[ev.idx]) :
          pods[o].phase = "running" /\ pods[o].rev = ev.R0

\* C19: an executor invocation that follows an interrupted one for the
\* same target deletes, in each batch, exactly the pods of the original
\* deletion set that are still listed and not on R0: what the first
\* invocation planned to delete less what has been replaced since (a
\* delete that fails on a pod already gone stops short of that set)
C19_RerunDeletesRemainder ==
    (ev.op \in DeleteOps /\ hist.after # "none") =>
        LET remaining ==
                {o \in hist.planned \cap SeqToSet(Plan(sts.replicas)[ev.idx]) :
                    pods[o].phase # "absent" /\ pods[o].rev # ev.R0}
        IN  /\ ev.del \subseteq remaining
            /\ ev.op = "delete_batch" => ev.del = remaining

C19_Witness ==
    /\ ev.op = "delete_batch"
    /\ hist.after = "crash"
    /\ ev.del # {}
    /\ \E o \in hist.planned \cap SeqToSet(Plan(sts.replicas)[ev.idx]) :
          pods[o].phase = "running" /\ pods[o].rev = ev.R0

\* C17: a finalization that finds listed pods still needing update against
\* R0 emits the warning and writes state=done, last-revision=R0 all the
\* same; without such pods it writes the same patch without the warning
C17_FinalizeWarnsAndMarksDone ==
    ev.op \in {"rollout_completed", "rollout_incomplete"} =>
        /\ (ev.op = "rollout_incomplete") =
               (\E o \in current_pods : pods[o].rev # ev.R0)
        /\ ev.patch = [state |-> ROLL_STATE_DONE, last_revision |-> ev.R0]
        /\ ann.state = ROLL_STATE_DONE
        /\ ann.last_revision = ev.R0
        /\ exec.pc = "idle"

C17_Witness ==
    /\ ev.op = "rollout_incomplete"
    /\ ann.state = ROLL_STATE_DONE
    /\ \E o \in current_pods : pods[o].phase = "running" /\ pods[o].rev # ev.R0

\* C18: whenever state=done is written, every listed pod with ordinal in
\* [0, replicas) is Ready and on the revision written as last-revision,
\* unless that finalization emitted the warning about outdated pods
C18_DoneMeansReadyOrWarned ==
    ev.op \in DoneOps =>
        \/ ev.op = "rollout_incomplete"
        \/ \A o \in current_pods :
               o < sts.replicas =>
                   PodReady(o) /\ pods[o].rev = ev.patch.last_revision

\* the values of the state annotation
RollStates ==
    {ROLL_STATE_NONE, ROLL_STATE_PLANNED, ROLL_STATE_ROLLING, ROLL_STATE_DONE}

\* C20: the state annotation is absent or one of none, planned, rolling,
\* done, and every patch the operator sends that carries a state carries
\* one of these
C20_StateValues ==
    /\ ann.state \in RollStates \cup {StateAbsent}
    /\ "state" \in DOMAIN ev.patch => ev.patch.state \in RollStates

C20_Witness ==
    /\ ev.op = "rollout_completed"
    /\ "state" \in DOMAIN ev.patch
    /\ ev.patch.state = ROLL_STATE_DONE
    /\ ann.state = ROLL_STATE_DONE
    /\ ann.planned_at # NoStr

\* a string of decimal digits, as str() of a timestamp gives it
IsDigits(s) ==
    /\ s # NoStr
    /\ \A i \in DOMAIN s : s[i] \in 0..9
    /\ IntToStr(StrToInt(s)) = s

\* C21: whenever the state annotation is planned, planned-at is present
\* and reads as an integer timestamp not in the future, and last-revision
\* is present
C21_PlannedHasTimestampAndRevision ==
    ann.state = ROLL_STATE_PLANNED =>
        /\ IsDigits(ann.planned_at)
        /\ StrToInt(ann.planned_at) <= now
        /\ ann.last_revision \in Revs

C21_Witness ==
    /\ ann.state = ROLL_STATE_PLANNED
    /\ ev.op = "revision_detected"
    /\ ann.planned_at = IntToStr(now)
    /\ now > 0
    /\ ann.last_revision = sts.updateRevision

\* ------------------------------------------------------ the helpers alone
\* the arguments the helpers are called with: lists of ordinals in any
\* order, replica counts, batch sizes, pods with and without metadata,
\* with and without the pod-index label, under several names
OrdinalLists == UNION {[1..n -> 0..MaxOrdinals] : n \in 0..MaxLen}

TextChars == {"1", "3", "x", "-"}

Texts == UNION {[1..n -> TextChars] : n \in 0..MaxText}

PodNames ==
    {prefix \o t : prefix \in {<<>>, StsNameText \o <<"-">>, <<"o", "-">>},
                   t \in Texts}

PodInputs ==
    [metadata : BOOLEAN, has_index : BOOLEAN, index : Texts, name : PodNames]

InitHelpers ==
    /\ settings = [enable_half_split |-> TRUE, max_unavailable |-> 1]
    /\ sts = [strategy |-> "OnDelete", updateRevision |-> NoRev,
              replicas |-> 0, podIndexLabel |-> TRUE]
    /\ pods = [o \in Ords |-> [phase |-> "absent", rev |-> NoRev, ready |-> FALSE]]
    /\ ann = NoAnn
    /\ now = 0
    /\ exec = IdleExec
    /\ timer = "idle"
    /\ others = [id \in OtherIds |-> NoAnn]
    /\ ev = EnvEv
    /\ hist = NoHist(FALSE)
    /\ call = NoCall
    /\ neighbours = NoNeighbours
    /\ labels = ControllerLabels
    /\ seen = NoSeen(FALSE)

CallSplitHalves ==
    /\ call.fn = "none"
    /\ \E ordinals \in OrdinalLists, replicas \in 0..(MaxOrdinals + 1) :
           call' = [fn |-> "split_halves",
                    args |-> [ordinals |-> ordinals, replicas |-> replicas],
                    result |-> split_halves(ordinals, replicas)]
    /\ UNCHANGED <<settings, sts, pods, ann, now, exec, timer, others, ev, hist, seen, neighbours, labels>>

CallBatchOrdinals ==
    /\ call.fn = "none"
    /\ \E ordinals \in OrdinalLists, batch_size \in 1..(MaxUnavail + 1) :
           call' = [fn |-> "batch_ordinals",
                    args |-> [ordinals |-> ordinals, batch_size |-> batch_size],
                    result |-> batch_ordinals(ordinals, batch_size)]
    /\ UNCHANGED <<settings, sts, pods, ann, now, exec, timer, others, ev, hist, seen, neighbours, labels>>

CallGetOrdinal ==
    /\ call.fn = "none"
    /\ \E pod \in PodInputs :
           call' = [fn |-> "get_ordinal",
                    args |-> [pod |-> pod, sts_name |-> StsNameText],
                    result |-> get_ordinal(pod, StsNameText)]
    /\ UNCHANGED <<settings, sts, pods, ann, now, exec, timer, others, ev, hist, seen, neighbours, labels>>

\* the caller takes the result; the next call can be made
CallReturn ==
    /\ call.fn # "none"
    /\ call' = NoCall
    /\ UNCHANGED <<settings, sts, pods, ann, now, exec, timer, others, ev, hist, seen, neighbours, labels>>

NextHelpers ==
    CallSplitHalves \/ CallBatchOrdinals \/ CallGetOrdinal \/ CallReturn

HelperSpec == InitHelpers /\ [][NextHelpers]_vars

\* C22: split_halves returns the ordinals below replicas div 2 and those
\* at or above it, each in input order: the two share no element, together
\* they hold exactly the input, every element of lower is less than every
\* element of upper; range(1) with replicas 1 gives (empty, [0]) and
\* range(2) with replicas 2 gives ([0], [1])
C22_SplitHalvesPartitions ==
    call.fn = "split_halves" =>
        LET ordinals == call.args.ordinals
            N == call.args.replicas
            lower == call.result[1]
            upper == call.result[2]
        IN  /\ \A i \in DOMAIN lower : lower[i] < N \div 2
            /\ \A i \in DOMAIN upper : upper[i] >= N \div 2
            /\ SeqToSet(lower) \cap SeqToSet(upper) = {}
            /\ SeqToSet(lower) \cup SeqToSet(upper) = SeqToSet(ordinals)
            /\ Len(lower) + Len(upper) = Len(ordinals)
            /\ \A i \in DOMAIN lower : \A j \in DOMAIN upper : lower[i] < upper[j]
            /\ (ordinals = Range(1) /\ N = 1) => call.result = <<<<>>, <<0>>>>
            /\ (ordinals = Range(2) /\ N = 2) => call.result = <<<<0>>, <<1>>>>

C22_Witness ==
    /\ call.fn = "split_halves"
    /\ call.args.replicas = 3
    /\ call.args.ordinals = <<2, 0, 1>>
    /\ call.result = <<<<0>>, <<2, 1>>>>

\* ascending, equal neighbours allowed
IsAscending(s) == \A i \in DOMAIN s : \A j \in DOMAIN s : i < j => s[i] <= s[j]

\* how often x occurs in s
Count(x, s) == Cardinality({i \in DOMAIN s : s[i] = x})

\* C23: batch_ordinals returns chunks whose concatenation is the input in
\* ascending order (the same elements, each as often as in the input),
\* every chunk holds at least one and at most batch_size ordinals, and the
\* empty input gives no chunk
C23_BatchesAreSortedChunks ==
    call.fn = "batch_ordinals" =>
        LET ordinals == call.args.ordinals
            M == call.args.batch_size
            batches == call.result
            flat == Flatten(batches)
        IN  /\ IsAscending(flat)
            /\ Len(flat) = Len(ordinals)
            /\ \A x \in 0..(MaxOrdinals + 1) : Count(x, flat) = Count(x, ordinals)
            /\ \A b \in DOMAIN batches : Len(batches[b]) \in 1..M
            /\ \A b \in DOMAIN batches : b < Len(batches) => Len(batches[b]) = M
            /\ ordinals = <<>> => batches = <<>>

C23_Witness ==
    /\ call.fn = "batch_ordinals"
    /\ call.args.ordinals = <<2, 0, 1>>
    /\ call.args.batch_size = 2
    /\ call.result = <<<<0, 1>>, <<2>>>>

\* a text of decimal digits only
AllDigits(s) == s # <<>> /\ \A i \in DOMAIN s : IsDigitChar(s[i])

\* C24: get_ordinal returns the pod-index label as an integer when the
\* label is present and parses; None when the label is present and does
\* not parse, whatever the name; None for a pod without metadata; and
\* without the label the integer after "<sts-name>-" in the name, or None
\* when the name has another prefix or the rest is not an integer
C24_GetOrdinal ==
    call.fn = "get_ordinal" =>
        LET pod == call.args.pod
            prefix == call.args.sts_name \o <<"-">>
            labelled == pod.metadata /\ pod.has_index
            rest == SubSeq(pod.name, Len(prefix) + 1, Len(pod.name))
        IN  /\ (labelled /\ AllDigits(pod.index)) =>
                   call.result = Some(StrToInt([i \in DOMAIN pod.index |->
                                                   DigitValue(pod.index[i])]))
            /\ (labelled /\ ~int_ok(pod.index)) => call.result = None
            /\ ~pod.metadata => call.result = None
            /\ (pod.metadata /\ ~pod.has_index) =>
                   /\ ~startswith(pod.name, prefix) => call.result = None
                   /\ (startswith(pod.name, prefix) /\ ~int_ok(rest)) =>
                          call.result = None
                   /\ (startswith(pod.name, prefix) /\ AllDigits(rest)) =>
                          /\ call.result.some
                          /\ str(call.result.val) = rest

C24_Witness ==
    /\ call.fn = "get_ordinal"
    /\ call.args.pod.metadata
    /\ call.args.pod.has_index
    /\ call.args.pod.index = <<"x">>
    /\ call.args.pod.name = StsNameText \o <<"-", "3">>
    /\ call.result = None

\* ------------------------------------------------------ the delay gate
\* check_rollout_timer, a tick that returns: the state is not planned,
\* planned-at is not set, or the delay has not elapsed (countdown)
TimerReturn ==
    /\ timer = "idle"
    /\ TimerDecision = "return"
    /\ ev' = Ev("timer_return", NoPatch, {}, 0, NoRev)
    /\ UNCHANGED <<settings, sts, pods, ann, now, exec, timer, hist, others, call, seen, neighbours, labels>>

\* someone removes the planned-at annotation of a planned rollout (the case
\* the planned branch of on_sts_change repairs)
PlannedAtRemoved ==
    /\ ann.state = ROLL_STATE_PLANNED
    /\ ann.planned_at # NoStr
    /\ ann' = [ann EXCEPT !.planned_at = NoStr]
    /\ ev' = EnvEv
    /\ UNCHANGED <<settings, sts, pods, now, exec, timer, hist, others, call, seen, neighbours, labels>>

NextGate == Next \/ TimerReturn \/ PlannedAtRemoved

GateSpec == Init /\ [][NextGate]_vars

TimerTickOps == {"rollout_delay_elapsed", "timer_return"}

\* C25: a timer tick goes on to patch exactly when the record it reads has
\* state planned, planned-at set and now - planned-at >= DELAY_SECONDS, and
\* the read itself changes no annotation and no pod; the patch it then
\* sends sets state to rolling and nothing else: last-revision, planned-at
\* and the pods stay as they are
TimerTickStep ==
    /\ (ev'.op = "rollout_delay_elapsed") <=>
           (/\ ann.state = ROLL_STATE_PLANNED
            /\ ann.planned_at # NoStr
            /\ now - StrToInt(ann.planned_at) >= DelaySeconds)
    /\ (timer' = "patch") <=> (ev'.op = "rollout_delay_elapsed")
    /\ ann' = ann
    /\ pods' = pods

TimerPatchStep ==
    /\ timer = "patch"
    /\ ann'.state = ROLL_STATE_ROLLING
    /\ ann'.last_revision = ann.last_revision
    /\ ann'.planned_at = ann.planned_at
    /\ pods' = pods

C25_TimerWritesRollingIffElapsed ==
    [][/\ (ev'.op \in TimerTickOps) => TimerTickStep
       /\ (ev'.op = "timer_patch") => TimerPatchStep
       /\ (timer' # timer) => (ev'.op \in {"rollout_delay_elapsed", "timer_patch", "crash"})
      ]_vars

C25_Witness ==
    /\ ev.op = "timer_patch"
    /\ ann.state = ROLL_STATE_ROLLING
    /\ ann.planned_at # NoStr
    /\ now - StrToInt(ann.planned_at) >= DelaySeconds
    /\ ann.last_revision \in Revs

\* C30: a watcher invocation that reads state planned leaves state and
\* last-revision as they are, deletes nothing and does not start the
\* executor; it sets planned-at to the current time when planned-at is
\* absent and leaves a planned-at that is present untouched
PlannedWatcherStep ==
    /\ ann'.state = ann.state
    /\ ann'.last_revision = ann.last_revision
    /\ (ann.planned_at # NoStr) => (ann'.planned_at = ann.planned_at)
    /\ (ann.planned_at = NoStr) => (ann'.planned_at \in {NoStr, IntToStr(now)})
    /\ (ev'.op = "rollout_planned") <=>
           (ann.planned_at = NoStr /\ ann'.planned_at = IntToStr(now))
    /\ pods' = pods
    /\ exec' = exec

C30_PlannedWatcherOnlyRepairs ==
    [][(ev'.op \in WatcherOps /\ ReadState = ROLL_STATE_PLANNED)
           => PlannedWatcherStep]_vars

C30_Witness ==
    /\ ev.op = "rollout_planned"
    /\ ann.state = ROLL_STATE_PLANNED
    /\ ann.planned_at = IntToStr(now)
    /\ now > 0
    /\ ann.last_revision \in Revs

\* the pods a step deletes: running before it, terminating after it
DeletedByStep ==
    {o \in Ords : pods[o].phase # "terminating" /\ pods'[o].phase = "terminating"}

\* C26: the executor is entered only by a watcher invocation that read
\* state rolling, and a pod is deleted only by a delete step of a running
\* executor: an invocation that read none, planned or done, and the timer,
\* delete nothing
C26_DeletesOnlyWhenRolling ==
    [][/\ (exec.pc = "idle" /\ exec'.pc # "idle") =>
              (ReadState = ROLL_STATE_ROLLING /\ ev'.op = "rollout_started")
       /\ (DeletedByStep # {} \/ ev'.del # {}) =>
              (/\ exec.pc = "batch"
               /\ ev'.op \in DeleteOps
               /\ DeletedByStep \subseteq ev'.del
               /\ timer' = timer)
       /\ (ev'.op \in WatcherOps /\ ReadState # ROLL_STATE_ROLLING) =>
              (pods' = pods /\ exec' = exec)
       /\ (ev'.op \in {"rollout_delay_elapsed", "timer_patch"}) =>
              (pods' = pods /\ exec' = exec)
      ]_vars

C26_Witness ==
    /\ ev.op = "delete_batch"
    /\ ev.del # {}
    /\ exec.pc = "wait"
    /\ ann.state = ROLL_STATE_ROLLING
    /\ \A o \in ev.del : pods[o].phase = "terminating"

\* C27: during one rollout, over all invocations of the executor, the pods
\* the operator deleted and that are not Ready again are never more than
\* MAX_UNAVAILABLE
C27_DisruptionBounded ==
    Cardinality(hist.down) <= settings.max_unavailable

\* C28: whenever the executor deletes a pod against the target revision
\* R0, the last-revision annotation is R0
C28_LastRevisionIsTarget ==
    (ev.op \in DeleteOps /\ ev.del # {}) => ann.last_revision = ev.R0

\* ------------------------------------------------------ revisions tracked
\* the template is edited to a revision the StatefulSet never had before
TemplateChangeFresh ==
    /\ sts.updateRevision \in Revs
    /\ seen.first[FreshRev] = -1
    /\ sts' = [sts EXCEPT !.updateRevision = FreshRev]
    /\ seen' = SeenRevision(FreshRev)
    /\ ev' = EnvEv
    /\ UNCHANGED <<settings, pods, ann, now, exec, timer, hist, others, call, neighbours, labels>>

InitTracked ==
    /\ settings \in [enable_half_split : BOOLEAN, max_unavailable : 1..MaxUnavail]
    /\ sts \in [strategy : {"OnDelete"},
                updateRevision : {NoRev},
                replicas : 1..MaxReplicas,
                podIndexLabel : {TRUE}]
    /\ pods = [o \in Ords |-> [phase |-> "absent", rev |-> NoRev, ready |-> FALSE]]
    /\ ann = NoAnn
    /\ now = 0
    /\ exec = IdleExec
    /\ timer = "idle"
    /\ others = [id \in OtherIds |-> NoAnn]
    /\ ev = EnvEv
    /\ hist = NoHist(FALSE)
    /\ call = NoCall
    /\ neighbours = NoNeighbours
    /\ labels = ControllerLabels
    /\ seen = NoSeen(TRUE)

NextTracked == Next \/ TemplateChangeFresh

TrackedSpec == InitTracked /\ [][NextTracked]_vars

\* C29: when the update revision has not changed while the state was
\* rolling (the rollout started from planned, not by a supersession), a pod
\* is deleted against the target R0 no earlier than DELAY_SECONDS after R0
\* first was the update revision
C29_DeleteWaitsForDelay ==
    (ev.op \in DeleteOps /\ ev.del # {} /\ ~seen.mid) =>
        /\ seen.first[ev.R0] # -1
        /\ now - seen.first[ev.R0] >= DelaySeconds

\* the listed pods that need update against the update revision of the event
NeedingUpdate ==
    {o \in current_pods : pod_needs_update(pods[o], sts.updateRevision)}

\* C31: a watcher invocation (update strategy OnDelete) that reads state
\* rolling and finds no listed pod needing update against the update
\* revision R0 of the event writes state done and last-revision R0 and
\* deletes no pod
C31_RollingNothingToUpdateFinalizes ==
    [][(/\ ev'.op \in WatcherOps
        /\ ReadState = ROLL_STATE_ROLLING
        /\ sts.strategy = "OnDelete"
        /\ NeedingUpdate = {})
           => (/\ ev'.op = "rollout_already_complete"
               /\ ann'.state = ROLL_STATE_DONE
               /\ ann'.last_revision = sts.updateRevision
               /\ pods' = pods)]_vars

InitOrdered ==
    /\ settings \in [enable_half_split : BOOLEAN, max_unavailable : 1..MaxUnavail]
    /\ sts \in [strategy : {"OnDelete"},
                updateRevision : {NoRev},
                replicas : 1..MaxReplicas,
                podIndexLabel : {TRUE}]
    /\ pods = [o \in Ords |-> [phase |-> "absent", rev |-> NoRev, ready |-> FALSE]]
    /\ ann = NoAnn
    /\ now = 0
    /\ exec = IdleExec
    /\ timer = "idle"
    /\ others = [id \in OtherIds |-> NoAnn]
    /\ ev = EnvEv
    /\ hist = NoHist(FALSE)
    /\ call = NoCall
    /\ neighbours = NoNeighbours
    /\ labels = ControllerLabels
    /\ seen = [NoSeen(FALSE) EXCEPT !.order = TRUE]

OrderSpec == InitOrdered /\ [][Next]_vars

\* the place of revision r in the order s (0: not in it)
Place(s, r) == IF \E i \in DOMAIN s : s[i] = r
               THEN CHOOSE i \in DOMAIN s : s[i] = r ELSE 0

\* revision a is older than revision b, both by the time they first were
\* the update revision and by the time they last became it
Older(a, b) ==
    /\ Place(seen.firsts, a) < Place(seen.firsts, b)
    /\ Place(seen.recent, a) < Place(seen.recent, b)

\* C33: no write of the detection path or of a finalization replaces the
\* stored last-revision by a revision that is older than it
C33_LastRevisionNeverRegresses ==
    [][(/\ ev'.op \in DoneOps \cup {"revision_detected"}
        /\ ann.last_revision # NoRev
        /\ ann'.last_revision # ann.last_revision)
           => ~Older(ann'.last_revision, ann.last_revision)]_vars

\* the moves of the state annotation, each with the step that makes it
PlannedByWatcher ==
    /\ ReadState \in {ROLL_STATE_NONE, ROLL_STATE_DONE}
    /\ ann'.state = ROLL_STATE_PLANNED
    /\ ev'.op = "revision_detected"
    /\ ann.state = ROLL_STATE_DONE => sts.updateRevision # ann.last_revision

RollingByTimer ==
    /\ ann.state = ROLL_STATE_PLANNED
    /\ ann'.state = ROLL_STATE_ROLLING
    /\ ev'.op = "timer_patch"

DoneByWatcher ==
    /\ ann.state = ROLL_STATE_ROLLING
    /\ ann'.state = ROLL_STATE_DONE
    /\ ev'.op \in DoneOps

InitNamespace ==
    /\ settings \in [enable_half_split : BOOLEAN, max_unavailable : 1..MaxUnavail]
    /\ sts \in [strategy : {"OnDelete"},
                updateRevision : {NoRev},
                replicas : 1..MaxReplicas,
                podIndexLabel : {TRUE}]
    /\ pods = [o \in Ords |-> [phase |-> "absent", rev |-> NoRev, ready |-> FALSE]]
    /\ ann = NoAnn
    /\ now = 0
    /\ exec = IdleExec
    /\ timer = "idle"
    /\ others = [id \in OtherIds |-> NoAnn]
    /\ ev = EnvEv
    /\ hist = NoHist(FALSE)
    /\ call = NoCall
    /\ neighbours \in [Ords -> {"absent", "notready", "ready"}]
    /\ \A o \in Ords : o >= MaxReplicas => neighbours[o] = "absent"
    /\ labels = ControllerLabels
    /\ seen = NoSeen(FALSE)

NamespaceSpec == InitNamespace /\ [][Next]_vars

\* C35: a readiness wait succeeds only when every ordinal of its batch has
\* a pod of the managed StatefulSet that is not being deleted and is Ready
C35_WaitSucceedsOnlyWhenBatchReady ==
    ev.op = "batch_ready" => \A o \in BatchAt(ev.idx) : PodReady(o)

\* ------------------------------------------------------ pods off the plan
\* the values a pod-index label can have: the ordinal of the pod, a text
\* that is no integer, an integer beyond every replica count
OddLabels == {<<"x">>, str(MaxOrdinals + 1)}

\* at most one pod carries an odd label; pods with an ordinal at or above
\* spec.replicas may be left over from a larger StatefulSet, on a revision
\* of their own
InitStrays ==
    /\ settings \in [enable_half_split : BOOLEAN, max_unavailable : 1..MaxUnavail]
    /\ sts \in [strategy : {"OnDelete"},
                updateRevision : {NoRev},
                replicas : 1..MaxReplicas,
                podIndexLabel : {TRUE}]
    /\ pods \in [Ords -> {[phase |-> "absent", rev |-> NoRev, ready |-> FALSE],
                          [phase |-> "running", rev |-> NoRev, ready |-> TRUE]}]
    /\ \A o \in Ords : o < sts.replicas => pods[o].phase = "absent"
    /\ ann = NoAnn
    /\ now = 0
    /\ exec = IdleExec
    /\ timer = "idle"
    /\ others = [id \in OtherIds |-> NoAnn]
    /\ ev = EnvEv
    /\ hist = NoHist(FALSE)
    /\ call = NoCall
    /\ neighbours = NoNeighbours
    /\ labels \in [Ords -> {str(o) : o \in Ords} \cup OddLabels]
    /\ Cardinality({o \in Ords : labels[o] # str(o)}) <= 1
    /\ \A o \in Ords : labels[o] \in {str(o)} \cup OddLabels
    /\ seen = NoSeen(FALSE)

StraySpec == InitStrays /\ [][Next]_vars

\* the pod in slot o has an ordinal, and it is one of 0..replicas-1
OnPlan(o) == \E k \in 0..(sts.replicas - 1) : labels[o] = str(k)

\* C36: a pod whose pod-index label is no integer, or is an integer outside
\* 0..replicas-1, is in no delete of the executor and is never terminating,
\* whatever its revision
C36_PodsOffThePlanAreKept ==
    /\ ev.op \in DeleteOps => \A o \in ev.del : OnPlan(o)
    /\ \A o \in Ords : ~OnPlan(o) => pods[o].phase # "terminating"

C36_Witness ==
    /\ ev.op = "delete_batch"
    /\ ev.del # {}
    /\ \E o \in current_pods : ~OnPlan(o) /\ o >= sts.replicas /\ pods[o].rev # ev.R0
    /\ \E o \in current_pods : labels[o] = <<"x">> /\ pods[o].rev # ev.R0

\* ------------------------------------------------------ scaled to zero
\* the StatefulSet is scaled to zero replicas; its controller deletes the
\* pods
ScaleToZero ==
    /\ sts.replicas > 0
    /\ sts' = [sts EXCEPT !.replicas = 0]
    /\ pods' = [o \in Ords |->
           IF pods[o].phase = "absent" THEN pods[o]
           ELSE [phase |-> "terminating", rev |-> pods[o].rev, ready |-> FALSE]]
    /\ ev' = EnvEv
    /\ UNCHANGED <<settings, ann, now, exec, timer, hist, others, call, seen,
                   neighbours, labels>>

NextScale == Next \/ ScaleToZero

ScaleSpec == Init /\ [][NextScale]_vars

\* C37: a watcher invocation (update strategy OnDelete) that reads state
\* rolling while the StatefulSet has zero replicas and no pods writes state
\* done and deletes nothing
C37_ZeroReplicasFinalizes ==
    [][(/\ ev'.op \in WatcherOps
        /\ ReadState = ROLL_STATE_ROLLING
        /\ sts.strategy = "OnDelete"
        /\ sts.replicas = 0
        /\ current_pods = {})
           => (ann'.state = ROLL_STATE_DONE /\ pods' = pods)]_vars

\* ------------------------------------------ strategy other than OnDelete
\* C38: while the update strategy of the StatefulSet is not OnDelete no step
\* moves the record from planned to rolling or from none/done to planned
C38_NothingScheduledOffOnDelete ==
    [][sts.strategy # "OnDelete" =>
          /\ ~(ReadState = ROLL_STATE_PLANNED /\ ann'.state = ROLL_STATE_ROLLING)
          /\ ~(/\ ReadState \in {ROLL_STATE_NONE, ROLL_STATE_DONE}
               /\ ann'.state = ROLL_STATE_PLANNED)]_vars

\* ------------------------------------------------ executor termination
\* every ordinal below n is in exactly one batch of the plan for n replicas,
\* and the batches hold nothing else
PlanPartitions(n) ==
    /\ \A o \in 0..(n - 1) :
          Cardinality({i \in DOMAIN Plan(n) : o \in SeqToSet(Plan(n)[i])}) = 1
    /\ \A i \in DOMAIN Plan(n) : SeqToSet(Plan(n)[i]) \subseteq 0..(n - 1)

\* the steps an executor invocation has left at most: two per batch not
\* yet finished (delete, wait) and the finalization
ExecRank ==
    IF exec.pc = "idle" THEN 0
    ELSE 2 * (Len(Plan(exec.replicas)) + 1 - exec.idx)
         + (IF exec.pc = "batch" THEN 2 ELSE 1)

\* the executor invocation ends with this step of its own
InvocationEnds == exec.pc # "idle" /\ exec'.pc = "idle" /\ ev'.op # "crash"

ExecutorExits == {"rollout_completed", "rollout_incomplete",
                  "rollout_interrupted", "wait_timeout"}

\* a step of a running invocation uses up rank, and deletes within the
\* batch it is at
C39_Progress ==
    (exec.pc # "idle" /\ exec' # exec) =>
        /\ ExecRank' < ExecRank
        /\ ev'.op \in DeleteOps => ev'.del \subseteq BatchAt(exec.idx)

\* C39: an executor invocation terminates: its plan partitions the
\* ordinals below replicas into finitely many batches, every step of it
\* moves on in the plan (so an ordinal is deleted at most once), and it
\* ends by finalizing, by a supersession exit or by the retryable error of
\* a readiness wait that reached its deadline
C39_InvocationTerminates ==
    [][/\ PlanPartitions(exec.replicas)
       /\ C39_Progress
       /\ InvocationEnds => ev'.op \in ExecutorExits]_vars

\* ------------------------------------------------------ partial patches
\* the arguments a caller can give: a value, or None
StateArgs == RollStates \cup {StateAbsent}
RevisionArgs == AllRevs \cup {NoRev}
PlannedAtArgs == {NoStr, IntToStr(0), IntToStr(MaxTime)}

\* the keys the caller set
KeysSet(state, last_revision, planned_at) ==
    {k \in {"state", "last_revision", "planned_at"} :
        \/ k = "state" /\ state # StateAbsent
        \/ k = "last_revision" /\ last_revision # NoRev
        \/ k = "planned_at" /\ planned_at # NoStr}

\* set_annotations_patch has the keys the caller set, with their values
PatchHasExactlyTheKeysSet ==
    \A s \in StateArgs, r \in RevisionArgs, p \in PlannedAtArgs :
       LET patch == set_annotations_patch(s, r, p)
       IN  /\ DOMAIN patch = KeysSet(s, r, p)
           /\ "state" \in DOMAIN patch => patch.state = s
           /\ "last_revision" \in DOMAIN patch => patch.last_revision = r
           /\ "planned_at" \in DOMAIN patch => patch.planned_at = p

\* C40: an annotation patch holds exactly the fields its caller set, and
\* every annotation a step's patch leaves out keeps its value: the write of
\* the timer carries state alone and leaves last-revision and planned-at,
\* the supersession write carries last-revision alone and leaves state and
\* planned-at
C40_PatchesArePartial ==
    [][/\ PatchHasExactlyTheKeysSet
       /\ \A k \in DOMAIN ann : k \notin DOMAIN ev'.patch => ann'[k] = ann[k]
       /\ (ev'.op = "timer_patch") =>
              /\ DOMAIN ev'.patch = {"state"}
              /\ ann'.last_revision = ann.last_revision
              /\ ann'.planned_at = ann.planned_at
       /\ (ev'.op = "rollout_interrupted") =>
              /\ DOMAIN ev'.patch = {"last_revision"}
              /\ ann'.state = ann.state
              /\ ann'.planned_at = ann.planned_at]_vars

\* the supersession write has replaced last-revision in a record whose
\* state and planned-at are still those of the rollout it interrupted
C40_Witness ==
    /\ ev.op = "rollout_interrupted"
    /\ DOMAIN ev.patch = {"last_revision"}
    /\ ann.state = ROLL_STATE_ROLLING
    /\ ann.planned_at # NoStr
    /\ ann.last_revision = sts.updateRevision
    /\ ann.last_revision # ev.R0

====
